---- MODULE Spec2Model ----
(***************************************************************************)
(* Model of db-UTF8-MB3-to-MB4: the charset converter                      *)
(* (convert/utf8mb4converter.py), the validator (convert/validation.py)    *)
(* and their caller (convert.py).  The database server is the environment: *)
(* its catalog is the state the introspection queries read, and an ALTER   *)
(* statement either succeeds, with the effect the statement text asks for, *)
(* or fails (mariadb.Error) and leaves the catalog alone.                  *)
(***************************************************************************)
EXTENDS Integers, Sequences, FiniteSets, TLC

\* ------------------------------------------------------------------ bounds
\* Fields of one column record that differ between two arbitrary snapshots.
MaxChanged == 2
\* Top-level conversion calls one behaviour makes.
MaxRuns == 2
\* ALTER statements the server may reject although they are well-formed.
MaxFailures == 1

\* ------------------------------------------------------------- constants
DEFAULT_CHARSET == "utf8mb4"
DEFAULT_COLLATION == "utf8mb4_unicode_520_ci"

\* Python's None, as the driver returns it for an SQL NULL.
None == "<None>"

\* str(v) as an f-string formats it: None is rendered as the word None.
Str(v) == IF v = None THEN "None" ELSE v

\* ------------------------------------------------------- the schema universe
Tables == <<"t1", "t2">>
ColumnNames == [t1 |-> <<"c1", "c2">>, t2 |-> <<"c1">>]

Collations == {"latin1_swedish_ci", "utf8mb4_general_ci", DEFAULT_COLLATION}

\* information_schema.COLLATION_CHARACTER_SET_APPLICABILITY
CharsetOfCollation(coll) ==
    IF coll = "latin1_swedish_ci" THEN "latin1" ELSE "utf8mb4"

\* CHARACTER_OCTET_LENGTH of a ten-character column: one byte a character in
\* latin1, four in utf8mb4.
OctetLength(charset) ==
    IF charset = None THEN None
    ELSE IF charset = "utf8mb4" THEN "40" ELSE "10"

Column(dtype, ctype, coll, nullable, dvalue) ==
    [DATA_TYPE |-> dtype, COLUMN_TYPE |-> ctype,
     CHARACTER_SET_NAME |-> IF coll = None THEN None ELSE CharsetOfCollation(coll),
     COLLATION_NAME |-> coll,
     CHARACTER_OCTET_LENGTH |->
        OctetLength(IF coll = None THEN None ELSE CharsetOfCollation(coll)),
     IS_NULLABLE |-> nullable, COLUMN_DEFAULT |-> dvalue]

\* The column definitions a table of the initial schema is built from.
ColumnKinds ==
    { Column("int", "int(11)", None, "NO", None),
      Column("enum", "enum('a','b')", "latin1_swedish_ci", "YES", None),
      Column("varchar", "varchar(10)", "utf8mb4_general_ci", "NO", "'x'"),
      Column("text", "text", "latin1_swedish_ci", "YES", None),
      Column("varchar", "varchar(10)", "latin1_swedish_ci", "YES", "'x'"),
      Column("char", "char(10)", "latin1_swedish_ci", "NO", "'x'"),
      Column("longtext", "longtext", "latin1_swedish_ci", "NO", None) }

\* The definitions the second column of the first table is built from.
C2Kinds ==
    { Column("int", "int(11)", None, "NO", None),
      Column("text", "text", "latin1_swedish_ci", "YES", None),
      Column("char", "char(10)", "latin1_swedish_ci", "NO", "'x'") }

\* The definitions the one column of the second table is built from.
T2Kinds ==
    { Column("varchar", "varchar(10)", "latin1_swedish_ci", "YES", "'x'"),
      Column("char", "char(10)", "latin1_swedish_ci", "NO", "'x'") }

WithName(kind, name) ==
    [COLUMN_NAME |-> name] @@ kind

VARIABLES
    dbInfo,     \* information_schema.SCHEMATA row of the database
    tblColl,    \* information_schema.TABLES.table_collation, per table
    catalog,    \* information_schema.COLUMNS rows, per table, in ordinal order
    executed,   \* the ALTER statements handed to cur.execute, with their outcome
    logger,     \* the records written to the logger
    pc,         \* the statement the program is at
    op,         \* the top-level call in progress
    tables,     \* local of the batch conversions: get_tables()
    ti,         \* index of the table the loop is at
    columns,    \* local of convert_charset_all_columns_single_table
    ci,         \* index of the column the loop is at
    start,      \* Validation.start
    end,        \* Validation.end
    result,     \* what the last validator call returned or raised
    calls       \* the top-level calls made so far, each with its place in executed

vars == <<dbInfo, tblColl, catalog, executed, logger, pc, op, tables, ti,
          columns, ci, start, end, result, calls>>

schema == <<dbInfo, tblColl, catalog>>
locals == <<tables, ti, columns, ci>>
validator == <<start, end, result>>

\* ------------------------------------------------------------ Schema reader
\* Only the first row fetched.
get_tables_FetchOne == <<Tables[1]>>

\* SHOW TABLES FROM db
get_tables == Tables

\* SELECT default_character_set_name, default_collation_name FROM SCHEMATA
get_charset_db == [charset |-> dbInfo.charset, collation |-> dbInfo.collation]

\* TABLES joined with COLLATION_CHARACTER_SET_APPLICABILITY on the collation
get_charset_table(table) ==
    [charset |-> CharsetOfCollation(tblColl[table]), collation |-> tblColl[table]]

\* The seven labelled fields of one COLUMNS row.
Descriptor(row) ==
    [name |-> row.COLUMN_NAME, type |-> row.DATA_TYPE, ctype |-> row.COLUMN_TYPE,
     charset |-> row.CHARACTER_SET_NAME, collation |-> row.COLLATION_NAME,
     nullable |-> row.IS_NULLABLE, dvalue |-> row.COLUMN_DEFAULT]

get_columns_of_table(table) ==
    [i \in 1..Len(catalog[table]) |-> Descriptor(catalog[table][i])]

\* --------------------------------------------------- the generated statements
\* Statements are kept as the words the code joins with single spaces.
DbQuery(db, charset, collation) ==
    <<"ALTER", "DATABASE", db, "CHARACTER", "SET", "=", charset,
      "COLLATE", "=", collation>>

TableQuery(table, charset, collation) ==
    <<"ALTER", "TABLE", table, "CONVERT", "TO", "CHARACTER", "SET", charset,
      "COLLATE", collation>>

\* The default left out of the NOT NULL branch.
NullClause_NoDefault(column) ==
    IF column.nullable = "YES" THEN <<"NULL">> ELSE <<"NOT", "NULL">>

\* The third part of the column statement: nullability and default.
NullClause(column) ==
    IF column.nullable = "YES"
    THEN <<"NULL">>
    ELSE <<"NOT", "NULL", "DEFAULT", Str(column.dvalue)>>

ColumnQuery(column, table, charset, collation) ==
    <<"ALTER", "TABLE", table, "CHANGE", column.name, column.name>>
    \o <<column.ctype, "CHARACTER", "SET", charset, "COLLATE", collation>>
    \o NullClause(column)

IsDbQuery(q) == q[2] = "DATABASE"
IsTableQuery(q) == q[2] = "TABLE" /\ q[4] = "CONVERT"
IsColumnQuery(q) == q[2] = "TABLE" /\ q[4] = "CHANGE"

\* The words of a column statement after the collation.
Clause(q) == SubSeq(q, 13, Len(q))

\* ------------------------------------------------- the server's side of ALTER
\* The literals the server accepts after DEFAULT.
Literals == {"'x'"}

\* A column statement the server can parse: NULL, or NOT NULL DEFAULT <literal>.
\* The database and table statements are always well-formed.
WellFormed(q) ==
    IsColumnQuery(q) =>
        \/ Clause(q) = <<"NULL">>
        \/ /\ Len(Clause(q)) = 4
           /\ SubSeq(Clause(q), 1, 3) = <<"NOT", "NULL", "DEFAULT">>
           /\ Clause(q)[4] \in Literals

\* ALTER DATABASE db CHARACTER SET = cs COLLATE = coll
AlterDatabase(q) == [charset |-> q[7], collation |-> q[10]]

\* ALTER TABLE t CONVERT TO CHARACTER SET cs COLLATE coll: the table default and
\* every character column of the table take the charset and collation.
ConvertedRow(row, q) ==
    IF row.CHARACTER_SET_NAME = None THEN row
    ELSE [row EXCEPT !.CHARACTER_SET_NAME = q[8], !.COLLATION_NAME = q[10],
                     !.CHARACTER_OCTET_LENGTH = OctetLength(q[8])]

ConvertTable(q) ==
    [catalog EXCEPT ![q[3]] =
        [i \in 1..Len(catalog[q[3]]) |-> ConvertedRow(catalog[q[3]][i], q)]]

\* ALTER TABLE t CHANGE c c <definition>: the column takes the definition the
\* statement spells out and nothing of the old one; a definition without a
\* DEFAULT clause has no default.
ChangedRow(row, q) ==
    [row EXCEPT !.COLUMN_TYPE = q[7], !.CHARACTER_SET_NAME = q[10],
                !.COLLATION_NAME = q[12],
                !.CHARACTER_OCTET_LENGTH = OctetLength(q[10]),
                !.IS_NULLABLE = IF Clause(q) = <<"NULL">> THEN "YES" ELSE "NO",
                !.COLUMN_DEFAULT = IF Clause(q) = <<"NULL">> THEN None ELSE Clause(q)[4]]

ChangeColumn(q) ==
    [catalog EXCEPT ![q[3]] =
        [i \in 1..Len(catalog[q[3]]) |->
            IF catalog[q[3]][i].COLUMN_NAME = q[5]
            THEN ChangedRow(catalog[q[3]][i], q)
            ELSE catalog[q[3]][i]]]

\* Well-formed statements the server has rejected so far.
Failures ==
    Cardinality({i \in 1..Len(executed) :
                    ~executed[i].ok /\ WellFormed(executed[i].query)})

\* cur.execute(query): the outcomes the server can give.
Outcomes(q) ==
    {ok \in BOOLEAN : /\ ok => WellFormed(q)
                      /\ (~ok /\ WellFormed(q)) => Failures < MaxFailures}

Execute(q, ok) ==
    /\ executed' = Append(executed, [query |-> q, ok |-> ok])
    /\ dbInfo' = IF ok /\ IsDbQuery(q) THEN AlterDatabase(q) ELSE dbInfo
    /\ tblColl' = IF ok /\ IsTableQuery(q)
                  THEN [tblColl EXCEPT ![q[3]] = q[10]] ELSE tblColl
    /\ catalog' = IF ok /\ IsTableQuery(q) THEN ConvertTable(q)
                  ELSE IF ok /\ IsColumnQuery(q) THEN ChangeColumn(q)
                  ELSE catalog

Log(level, event, unit) == [level |-> level, event |-> event, unit |-> unit]

\* --------------------------------------------------------- Charset converter
DbName == "db"

\* The check made on the collation instead of the charset.
DbSkipped_Collation(db_info, charset) == db_info.collation = charset

\* convert_charset_db: the check that returns before any statement is built.
DbSkipped(db_info, charset) == db_info.charset = charset

\* The table's collation compared with the target charset.
TableSkipped_Collation(table_info, charset) == table_info.collation = charset

\* convert_charset_single_table: the same check on the table's charset.
TableSkipped(table_info, charset) == table_info.charset = charset

\* enum, a type with a charset, taken for a type to convert.
ConvertibleTypes_WithEnum == {"char", "varchar", "text", "longtext", "enum"}

ConvertibleTypes_NoText == {"char", "varchar", "longtext"}

ConvertibleTypes == {"char", "varchar", "text", "longtext"}

\* convert_charset_single_column: the three early returns, in the code's order;
\* "" when the column goes on to be altered.  An empty charset is as false as
\* None to Python's not.
ColumnSkipped(column, charset) ==
    IF column.charset = None \/ column.charset = "" THEN "no charset"
    ELSE IF column.type \notin ConvertibleTypes THEN "type"
    ELSE IF column.charset = charset THEN "already"
    ELSE ""

\* try: cur.execute(query) ... except mariadb.Error: the statement is executed,
\* its outcome is logged, and nothing is raised.
TryExecute(q, unit) ==
    \E ok \in Outcomes(q) :
        /\ Execute(q, ok)
        /\ logger' = logger \o
              <<Log("debug", "start", unit),
                IF ok THEN Log("debug", "converted", unit)
                      ELSE Log("error", "failed", unit)>>

\* A handler that logs the error and raises it again.
Propagates_Reraised(ok) == ~ok

\* except mariadb.Error as e: whether the error of a statement with outcome ok
\* leaves the handler.  The handler logs it and raises nothing.
Propagates(ok) == FALSE

\* The step has executed a statement whose error reaches the caller.
Uncaught ==
    /\ Len(executed') > Len(executed)
    /\ Propagates(executed'[Len(executed')].ok)

Skip(event, unit) ==
    /\ logger' = logger \o <<Log("debug", "start", unit), Log("debug", event, unit)>>
    /\ UNCHANGED <<schema, executed>>

convert_charset_db(charset, collation) ==
    IF DbSkipped(get_charset_db, charset)
    THEN Skip("already", <<"database">>)
    ELSE TryExecute(DbQuery(DbName, charset, collation), <<"database">>)

convert_charset_single_table(table, charset, collation) ==
    IF TableSkipped(get_charset_table(table), charset)
    THEN Skip("already", <<"table", table>>)
    ELSE TryExecute(TableQuery(table, charset, collation), <<"table", table>>)

convert_charset_single_column(column, table, charset, collation) ==
    IF ColumnSkipped(column, charset) # ""
    THEN Skip(ColumnSkipped(column, charset), <<"column", table, column.name>>)
    ELSE TryExecute(ColumnQuery(column, table, charset, collation),
                    <<"column", table, column.name>>)

\* convert_charset_all is called by convert.py and by Validation.convert_validate:
\* the database, then all tables, then all columns of all tables.
ConvertCharsetAllSteps ==
    <<"convert_charset_db", "convert_charset_all_tables",
      "convert_charset_all_columns_all_tables">>

\* The end state captured before the conversion.
convert_validate_EndFirst == <<"generate_start_state", "generate_end_state",
                               "convert_charset_all", "compare_states">>

\* convert_validate: the four calls of its body, in order.
convert_validate == <<"generate_start_state", "convert_charset_all",
                      "generate_end_state", "compare_states">>

\* Where control goes when a call made by convert_validate returns: to the next
\* call of its body, or out of it.
AfterCall(name) ==
    IF op # "convert_validate" THEN "idle"
    ELSE LET i == CHOOSE j \in 1..Len(convert_validate) : convert_validate[j] = name
         IN IF i < Len(convert_validate) THEN convert_validate[i + 1] ELSE "idle"

\* Where control goes when step number k of convert_charset_all returns.
Return(k) ==
    IF k < Len(ConvertCharsetAllSteps) THEN ConvertCharsetAllSteps[k + 1]
    ELSE AfterCall("convert_charset_all")

ConvertCharsetAll ==
    /\ pc = "convert_charset_all"
    /\ pc' = ConvertCharsetAllSteps[1]
    /\ UNCHANGED <<schema, executed, logger, op, locals, validator, calls>>

ConvertCharsetDb ==
    /\ pc = "convert_charset_db"
    /\ convert_charset_db(DEFAULT_CHARSET, DEFAULT_COLLATION)
    /\ pc' = IF Uncaught THEN "idle" ELSE Return(1)
    /\ UNCHANGED <<op, locals, validator, calls>>

\* tables = self.get_tables()
ConvertCharsetAllTables ==
    /\ pc = "convert_charset_all_tables"
    /\ tables' = get_tables
    /\ ti' = 1
    /\ pc' = "for table in tables"
    /\ UNCHANGED <<schema, executed, logger, op, columns, ci, validator, calls>>

\* One turn of the loop of convert_charset_all_tables, or its end.
ConvertCharsetSingleTable ==
    /\ pc = "for table in tables"
    /\ ti <= Len(tables)
    /\ convert_charset_single_table(tables[ti], DEFAULT_CHARSET, DEFAULT_COLLATION)
    /\ ti' = ti + 1
    /\ pc' = IF Uncaught THEN "idle" ELSE pc
    /\ UNCHANGED <<op, tables, columns, ci, validator, calls>>

AllTablesDone ==
    /\ pc = "for table in tables"
    /\ ti > Len(tables)
    /\ pc' = Return(2)
    /\ UNCHANGED <<schema, executed, logger, op, locals, validator, calls>>

\* tables = self.get_tables()
ConvertCharsetAllColumnsAllTables ==
    /\ pc = "convert_charset_all_columns_all_tables"
    /\ tables' = get_tables
    /\ ti' = 1
    /\ pc' = "convert_charset_all_columns_single_table"
    /\ UNCHANGED <<schema, executed, logger, op, columns, ci, validator, calls>>

\* columns = self.get_columns_of_table(table), for the table the outer loop is at.
ConvertCharsetAllColumnsSingleTable ==
    /\ pc = "convert_charset_all_columns_single_table"
    /\ ti <= Len(tables)
    /\ columns' = get_columns_of_table(tables[ti])
    /\ ci' = 1
    /\ pc' = "for column in columns"
    /\ UNCHANGED <<schema, executed, logger, op, tables, ti, validator, calls>>

ConvertCharsetSingleColumn ==
    /\ pc = "for column in columns"
    /\ ci <= Len(columns)
    /\ convert_charset_single_column(columns[ci], tables[ti],
                                     DEFAULT_CHARSET, DEFAULT_COLLATION)
    /\ ci' = ci + 1
    /\ pc' = IF Uncaught THEN "idle" ELSE pc
    /\ UNCHANGED <<op, tables, ti, columns, validator, calls>>

ColumnsOfTableDone ==
    /\ pc = "for column in columns"
    /\ ci > Len(columns)
    /\ ti' = ti + 1
    /\ pc' = "convert_charset_all_columns_single_table"
    /\ UNCHANGED <<schema, executed, logger, op, tables, columns, ci, validator, calls>>

AllColumnsDone ==
    /\ pc = "convert_charset_all_columns_single_table"
    /\ ti > Len(tables)
    /\ pc' = Return(3)
    /\ UNCHANGED <<schema, executed, logger, op, locals, validator, calls>>

\* ------------------------------------------------------------------ Validator
\* An attribute that is None, or that holds the value v.
Unset == <<>>
Some(v) == <<v>>
IsNone(x) == x = Unset
Value(x) == x[1]

RECURSIVE SetToSeq(_)
\* The keys of a dict, as a sequence.
SetToSeq(S) ==
    IF S = {} THEN <<>>
    ELSE LET x == CHOOSE y \in S : TRUE IN <<x>> \o SetToSeq(S \ {x})

\* SELECT * FROM information_schema.COLUMNS for the table, read through the
\* dictionary cursor: every field of every row, keyed by the field's name.
FullColumns(table) == catalog[table]

\* _get_state: state[table][column["COLUMN_NAME"]] = column
TablesWithColumns == {get_tables[i] : i \in {j \in 1..Len(get_tables) :
                                                Len(FullColumns(get_tables[j])) > 0}}

GetState ==
    [t \in TablesWithColumns |->
        [n \in {FullColumns(t)[i].COLUMN_NAME : i \in 1..Len(FullColumns(t))} |->
            LET i == CHOOSE j \in 1..Len(FullColumns(t)) :
                        /\ FullColumns(t)[j].COLUMN_NAME = n
                        /\ \A k \in (j + 1)..Len(FullColumns(t)) :
                              FullColumns(t)[k].COLUMN_NAME # n
            IN FullColumns(t)[i]]]

\* The octet length left out of the fields passed over.
IgnoredFields_Two == {"CHARACTER_SET_NAME", "COLLATION_NAME"}

\* The fields _get_differences passes over with continue.
IgnoredFields == {"CHARACTER_SET_NAME", "COLLATION_NAME", "CHARACTER_OCTET_LENGTH"}

\* The comparison of one key: a[key] != b[key]
Differs(a, b, key) == a[key] # b[key]

RECURSIVE DifferencesLoop(_, _, _, _)
\* for key in keys: ... data[key] = {"Before": a[key], "After": b[key]}
DifferencesLoop(keys, a, b, data) ==
    IF keys = <<>> THEN data
    ELSE LET key == Head(keys)
             rest == SubSeq(keys, 2, Len(keys))
         IN IF key \in IgnoredFields THEN DifferencesLoop(rest, a, b, data)
            ELSE IF Differs(a, b, key)
            THEN DifferencesLoop(rest, a, b,
                    (key :> [Before |-> a[key], After |-> b[key]]) @@ data)
            ELSE DifferencesLoop(rest, a, b, data)

\* The empty dict.
EmptyDict == [k \in {} |-> k]

get_differences(a, b) == DifferencesLoop(SetToSeq(DOMAIN a), a, b, EmptyDict)

\* The test len(comp) >= 0, true of every comparison.
Altered_NonNegative(comp) == Cardinality(DOMAIN comp) >= 0

\* if len(comp) == 0: unaltered, else altered and recorded
Altered(comp) == DOMAIN comp # {}

\* details[table][column] = comp, on a defaultdict(dict)
Record(details, table, column, comp) ==
    IF table \in DOMAIN details
    THEN [details EXCEPT ![table] = (column :> comp) @@ details[table]]
    ELSE (table :> (column :> comp)) @@ details

RECURSIVE CompareLoop(_, _, _, _)
\* The two loops of compare_states, over the (table, column) keys of start.
CompareLoop(keys, a, b, report) ==
    IF keys = <<>> THEN report
    ELSE LET table == Head(keys)[1]
             column == Head(keys)[2]
             comp == get_differences(a[table][column], b[table][column])
             rest == SubSeq(keys, 2, Len(keys))
         IN IF ~Altered(comp)
            THEN CompareLoop(rest, a, b,
                    [report EXCEPT !.summary.unaltered = @ + 1])
            ELSE CompareLoop(rest, a, b,
                    [summary |-> [report.summary EXCEPT !.altered = @ + 1],
                     details |-> Record(report.details, table, column, comp)])

StateKeys(state) ==
    SetToSeq({<<t, c>> \in UNION {{t} \X DOMAIN state[t] : t \in DOMAIN state} : TRUE})

\* An empty report returned where a state is missing.
compare_states_NoRaise(s, e) ==
    IF IsNone(s) \/ IsNone(e)
    THEN [kind |-> "returned",
          report |-> [summary |-> [unaltered |-> 0, altered |-> 0],
                      details |-> EmptyDict]]
    ELSE [kind |-> "returned",
          report |-> CompareLoop(StateKeys(Value(s)), Value(s), Value(e),
                        [summary |-> [unaltered |-> 0, altered |-> 0],
                         details |-> EmptyDict])]

\* compare_states: what it raises or returns.
compare_states(s, e) ==
    IF IsNone(s) THEN [kind |-> "raised", exc |-> "MissingStateException"]
    ELSE IF IsNone(e) THEN [kind |-> "raised", exc |-> "MissingStateException"]
    ELSE [kind |-> "returned",
          report |-> CompareLoop(StateKeys(Value(s)), Value(s), Value(e),
                        [summary |-> [unaltered |-> 0, altered |-> 0],
                         details |-> EmptyDict])]

ConvertValidate ==
    /\ pc = "convert_validate"
    /\ pc' = convert_validate[1]
    /\ UNCHANGED <<schema, executed, logger, op, locals, validator, calls>>

GenerateStartState ==
    /\ pc = "generate_start_state"
    /\ start' = Some(GetState)
    /\ pc' = AfterCall("generate_start_state")
    /\ UNCHANGED <<schema, executed, logger, op, locals, end, result, calls>>

GenerateEndState ==
    /\ pc = "generate_end_state"
    /\ end' = Some(GetState)
    /\ pc' = AfterCall("generate_end_state")
    /\ UNCHANGED <<schema, executed, logger, op, locals, start, result, calls>>

CompareStates ==
    /\ pc = "compare_states"
    /\ result' = compare_states(start, end)
    /\ pc' = IF result'.kind = "raised" THEN "idle" ELSE AfterCall("compare_states")
    /\ UNCHANGED <<schema, executed, logger, op, locals, start, end, calls>>

\* ------------------------------------------------------------------ the caller
\* The call main makes in validate mode and in convert mode.
Modes == {"convert_validate", "convert_charset_all"}

\* One run of the program: main connects, builds a Validation in validate mode
\* (start and end are None), and makes the call of its mode.
Main ==
    /\ pc = "idle"
    /\ Len(calls) < MaxRuns
    /\ \E mode \in Modes :
          /\ op' = mode
          /\ pc' = mode
          /\ calls' = Append(calls, [op |-> mode, from |-> Len(executed), logged |-> Len(logger),
                                   before |-> schema])
    /\ start' = Unset
    /\ end' = Unset
    /\ result' = [kind |-> "none"]
    /\ UNCHANGED <<schema, executed, logger, locals>>

ValidatorCalls == {"generate_start_state", "generate_end_state", "compare_states"}

\* A user of one Validation object calls one of its methods.
CallOf(methods) ==
    /\ pc = "idle"
    /\ \E c \in methods :
          /\ c = "convert_validate" => Len(calls) < MaxRuns
          /\ op' = c
          /\ pc' = c
          /\ calls' = IF c = "convert_validate"
                      THEN Append(calls, [op |-> c, from |-> Len(executed), logged |-> Len(logger),
                                          before |-> schema])
                      ELSE calls
    /\ UNCHANGED <<schema, executed, logger, locals, validator>>

\* The methods of the object, in any order.
ValidationCall == CallOf(ValidatorCalls \cup {"convert_validate"})

\* --------------------------------------------------------------- specification
TableSet == {Tables[i] : i \in 1..Len(Tables)}

\* Charsets a database or table starts with: not the target's, or the target's
\* under another collation.
InitCollations == {"latin1_swedish_ci", "utf8mb4_general_ci"}

InitSchema ==
    /\ dbInfo \in {[charset |-> CharsetOfCollation(c), collation |-> c] :
                      c \in InitCollations}
    /\ tblColl \in [TableSet -> InitCollations]
    /\ catalog \in [t1 : {<<WithName(k1, "c1"), WithName(k2, "c2")>> :
                             k1 \in ColumnKinds, k2 \in C2Kinds},
                    t2 : {<<WithName(k, "c1")>> : k \in T2Kinds}]

InitProgram ==
    /\ executed = <<>>
    /\ logger = <<>>
    /\ pc = "idle"
    /\ op = ""
    /\ tables = <<>>
    /\ ti = 1
    /\ columns = <<>>
    /\ ci = 1
    /\ start = Unset
    /\ end = Unset
    /\ result = [kind |-> "none"]
    /\ calls = <<>>

Init == InitSchema /\ InitProgram

Converter ==
    \/ ConvertCharsetAll
    \/ ConvertCharsetDb
    \/ ConvertCharsetAllTables
    \/ ConvertCharsetSingleTable
    \/ AllTablesDone
    \/ ConvertCharsetAllColumnsAllTables
    \/ ConvertCharsetAllColumnsSingleTable
    \/ ConvertCharsetSingleColumn
    \/ ColumnsOfTableDone
    \/ AllColumnsDone

Validation ==
    \/ ConvertValidate
    \/ GenerateStartState
    \/ GenerateEndState
    \/ CompareStates

Next == Main \/ Converter \/ Validation

Spec == Init /\ [][Next]_vars

\* One Validation object used as a library: its methods in any order.
InitValidation ==
    /\ dbInfo = [charset |-> "latin1", collation |-> "latin1_swedish_ci"]
    /\ tblColl \in [TableSet -> InitCollations]
    /\ catalog \in [t1 : {<<WithName(k, "c1"), WithName(k, "c2")>> : k \in T2Kinds},
                    t2 : {<<WithName(k, "c1")>> : k \in T2Kinds}]
    /\ InitProgram

NextValidation == ValidationCall \/ Converter \/ Validation

SpecValidation == InitValidation /\ [][NextValidation]_vars

\* ===================================================================== claims
\* The statements run number k executed, and whether the run is over.
RunEnd(k) == IF k < Len(calls) THEN calls[k + 1].from ELSE Len(executed)
RunStatements(k) == SubSeq(executed, calls[k].from + 1, RunEnd(k))
RunLogEnd(k) == IF k < Len(calls) THEN calls[k + 1].logged ELSE Len(logger)
RunLog(k) == SubSeq(logger, calls[k].logged + 1, RunLogEnd(k))
RunOver(k) == k < Len(calls) \/ (k = Len(calls) /\ pc = "idle")
AllOk(stmts) == \A i \in 1..Len(stmts) : stmts[i].ok

\* The unit a statement alters.
UnitOf(q) ==
    IF IsDbQuery(q) THEN <<"database">>
    ELSE IF IsTableQuery(q) THEN <<"table", q[3]>>
    ELSE <<"column", q[3], q[5]>>

Altered_In(stmts, unit) == \E i \in 1..Len(stmts) : UnitOf(stmts[i].query) = unit

BatchesOver ==
    /\ Len(calls) >= 1
    /\ pc \in {"generate_end_state", "compare_states", "idle"}

ThisRun == RunStatements(Len(calls))

RowIsConvertible(row) ==
    /\ row.CHARACTER_SET_NAME # None
    /\ row.DATA_TYPE \in {"char", "varchar", "text", "longtext"}

\* C2: a failed ALTER is logged and stops nothing.  When the batches of a run
\* are over, every table that is not at the target charset had its ALTER TABLE
\* executed in this run, every convertible column that is not at the target
\* charset had its CHANGE executed in this run, and every statement that failed
\* is in the log as an error of its unit.
C2_FailureIsolated ==
    BatchesOver =>
        /\ \A t \in TableSet :
              \/ get_charset_table(t).charset = DEFAULT_CHARSET
              \/ Altered_In(ThisRun, <<"table", t>>)
        /\ \A t \in TableSet : \A i \in 1..Len(catalog[t]) :
              \/ ~RowIsConvertible(catalog[t][i])
              \/ catalog[t][i].CHARACTER_SET_NAME = DEFAULT_CHARSET
              \/ Altered_In(ThisRun, <<"column", t, catalog[t][i].COLUMN_NAME>>)
        /\ \A i \in 1..Len(ThisRun) :
              ~ThisRun[i].ok =>
                  \E j \in 1..Len(logger) :
                      logger[j] = Log("error", "failed", UnitOf(ThisRun[i].query))

\* The ALTER of the first table failed and the second table, the columns of
\* the first table and the column of the second were altered after it.
C2_Witness ==
    /\ BatchesOver
    /\ \E i \in 1..Len(ThisRun) :
          /\ ThisRun[i].query = TableQuery("t1", DEFAULT_CHARSET, DEFAULT_COLLATION)
          /\ ~ThisRun[i].ok
          /\ \E j \in (i + 1)..Len(ThisRun) :
                /\ ThisRun[j].query = TableQuery("t2", DEFAULT_CHARSET, DEFAULT_COLLATION)
                /\ ThisRun[j].ok
          /\ \E j \in (i + 1)..Len(ThisRun) :
                UnitOf(ThisRun[j].query) = <<"column", "t1", "c2">>

\* The step is one call of convert_charset_single_column, on columns[ci].
AtColumn == pc = "for column in columns" /\ ci <= Len(columns)

\* The row of the catalog the column of the step was read from.
RowOf(table, name) ==
    catalog[table][CHOOSE i \in 1..Len(catalog[table]) :
                        catalog[table][i].COLUMN_NAME = name]

\* C3: a call of the column conversion executes no statement when the column's
\* charset is null, or its data type is none of char, varchar, text, longtext,
\* or its charset is the target charset; otherwise it executes exactly one
\* statement, a CHANGE of that column.
C3_EligibilityFilter ==
    [][AtColumn =>
         IF \/ columns[ci].charset = None
            \/ columns[ci].type \notin {"char", "varchar", "text", "longtext"}
            \/ columns[ci].charset = DEFAULT_CHARSET
         THEN executed' = executed
         ELSE /\ Len(executed') = Len(executed) + 1
              /\ SubSeq(executed', 1, Len(executed)) = executed
              /\ UnitOf(executed'[Len(executed')].query)
                    = <<"column", tables[ti], columns[ci].name>>]_vars

\* The columns of t1 have been gone through: c1, an enum with a charset that
\* is not the target, got no statement, and c2, a latin1 text column, got one.
C3_Witness ==
    /\ pc = "for column in columns"
    /\ tables[ti] = "t1"
    /\ ci = 3
    /\ columns[1].type = "enum" /\ columns[1].charset = "latin1"
    /\ columns[2].type = "text" /\ columns[2].charset = "latin1"
    /\ ~Altered_In(ThisRun, <<"column", "t1", "c1">>)
    /\ Altered_In(ThisRun, <<"column", "t1", "c2">>)

\* C4: the statement executed for a column ends with NULL and has no DEFAULT
\* clause when the catalog says the column is nullable, and ends with
\* NOT NULL DEFAULT <default> otherwise, <default> being the text of the
\* catalog's COLUMN_DEFAULT (the word None when there is none).
C4_NullClause ==
    [][(AtColumn /\ Len(executed') > Len(executed)) =>
         LET q == executed'[Len(executed')].query
             n == Len(q)
             row == RowOf(tables[ti], columns[ci].name)
         IN IF row.IS_NULLABLE = "YES"
            THEN /\ q[n] = "NULL"
                 /\ q[n - 1] # "NOT"
                 /\ \A i \in 1..n : q[i] # "DEFAULT"
            ELSE /\ q[n - 3] = "NOT"
                 /\ q[n - 2] = "NULL"
                 /\ q[n - 1] = "DEFAULT"
                 /\ q[n] = IF row.COLUMN_DEFAULT = None THEN "None"
                           ELSE row.COLUMN_DEFAULT]_vars

\* A nullable column and a NOT NULL DEFAULT 'x' column have both been altered.
C4_Witness ==
    /\ \E i \in 1..Len(executed) :
          /\ IsColumnQuery(executed[i].query)
          /\ executed[i].query[Len(executed[i].query)] = "'x'"
          /\ executed[i].ok
    /\ \E i \in 1..Len(executed) :
          /\ IsColumnQuery(executed[i].query)
          /\ executed[i].query[Len(executed[i].query)] = "NULL"
          /\ executed[i].query[Len(executed[i].query) - 1] = DEFAULT_COLLATION
          /\ executed[i].ok

\* C5: a CHANGE statement that succeeds leaves the nullability and the default
\* of every column of the table as they were.
C5_SemanticsPreserved ==
    [][(AtColumn /\ Len(executed') > Len(executed) /\ executed'[Len(executed')].ok) =>
         \A i \in 1..Len(catalog[tables[ti]]) :
            /\ catalog'[tables[ti]][i].IS_NULLABLE = catalog[tables[ti]][i].IS_NULLABLE
            /\ catalog'[tables[ti]][i].COLUMN_DEFAULT
                  = catalog[tables[ti]][i].COLUMN_DEFAULT]_vars

\* The outcome of unit u is in the log L before place j.
Processed(L, j, u) ==
    \E i \in 1..(j - 1) : L[i].unit = u /\ L[i].event # "start"

IsAlterEvent(e) == e.event \in {"converted", "failed"}

AllColumnUnits ==
    UNION {{<<"column", t, ColumnNames[t][i]>> : i \in 1..Len(ColumnNames[t])} :
              t \in TableSet}

ChangeableFields ==
    {"CHARACTER_SET_NAME", "COLLATION_NAME", "CHARACTER_OCTET_LENGTH",
     "IS_NULLABLE", "COLUMN_DEFAULT"}

ChangedSets == {F \in SUBSET ChangeableFields : Cardinality(F) <= MaxChanged}

\* The record with the fields of F given another value.
ChangedIn(row, F) ==
    [f \in DOMAIN row |-> IF f \in F THEN "other" ELSE row[f]]

BaseCatalog ==
    [t1 |-> <<WithName(Column("char", "char(10)", "latin1_swedish_ci", "NO", "'x'"), "c1"),
              WithName(Column("text", "text", "latin1_swedish_ci", "YES", None), "c2")>>,
     t2 |-> <<WithName(Column("varchar", "varchar(10)", "latin1_swedish_ci", "YES", "'x'"),
                       "c1")>>]

InitDiff ==
    /\ dbInfo = [charset |-> "latin1", collation |-> "latin1_swedish_ci"]
    /\ tblColl = [t \in TableSet |-> "latin1_swedish_ci"]
    /\ catalog = BaseCatalog
    /\ executed = <<>>
    /\ logger = <<>>
    /\ pc = "idle"
    /\ op = ""
    /\ tables = <<>>
    /\ ti = 1
    /\ columns = <<>>
    /\ ci = 1
    /\ start = Some(GetState)
    /\ \E F1 \in ChangedSets, F2 \in ChangedSets, F3 \in ChangedSets :
          end = Some([t1 |-> [c1 |-> ChangedIn(GetState.t1.c1, F1),
                              c2 |-> ChangedIn(GetState.t1.c2, F2)],
                      t2 |-> [c1 |-> ChangedIn(GetState.t2.c1, F3)]])
    /\ result = [kind |-> "none"]
    /\ calls = <<>>

CompareCall == CallOf({"compare_states"})

\* _get_differences called on the two records of one column.
GetDifferences ==
    /\ pc = "idle"
    /\ ~IsNone(start) /\ ~IsNone(end)
    /\ \E t \in DOMAIN Value(start) : \E c \in DOMAIN Value(start)[t] :
          result' = [kind |-> "differences", table |-> t, column |-> c,
                     data |-> get_differences(Value(start)[t][c], Value(end)[t][c])]
    /\ UNCHANGED <<schema, executed, logger, pc, op, locals, start, end, calls>>

NextDiff == CompareCall \/ CompareStates \/ GetDifferences

SpecDiff == InitDiff /\ [][NextDiff]_vars

Expected == {"CHARACTER_SET_NAME", "COLLATION_NAME", "CHARACTER_OCTET_LENGTH"}

\* C8: the diff of a before record a and an after record b has an entry for a
\* field exactly when the field is none of CHARACTER_SET_NAME, COLLATION_NAME,
\* CHARACTER_OCTET_LENGTH and a and b differ in it, and the entry holds a's value
\* as Before and b's value as After.
C8_Diff ==
    result.kind = "differences" =>
        LET a == Value(start)[result.table][result.column]
            b == Value(end)[result.table][result.column]
        IN /\ DOMAIN result.data \subseteq DOMAIN a
           /\ \A f \in DOMAIN a :
                 /\ f \in DOMAIN result.data <=> (f \notin Expected /\ a[f] # b[f])
                 /\ f \in DOMAIN result.data =>
                       /\ DOMAIN result.data[f] = {"Before", "After"}
                       /\ result.data[f].Before = a[f]
                       /\ result.data[f].After = b[f]

\* The records differ in the charset and in the default, and the diff has the
\* one entry of the default.
C8_Witness ==
    /\ result.kind = "differences"
    /\ LET a == Value(start)[result.table][result.column]
           b == Value(end)[result.table][result.column]
       IN /\ a.CHARACTER_SET_NAME # b.CHARACTER_SET_NAME
          /\ a.COLUMN_DEFAULT # b.COLUMN_DEFAULT
          /\ DOMAIN result.data = {"COLUMN_DEFAULT"}

\* The columns of the before snapshot, and those with an unexpected change.
SnapshotColumns(state) ==
    UNION {{<<t, c>> : c \in DOMAIN state[t]} : t \in DOMAIN state}

Anomalous(a, b) ==
    {tc \in SnapshotColumns(a) :
        \E f \in DOMAIN a[tc[1]][tc[2]] :
            f \notin Expected /\ a[tc[1]][tc[2]][f] # b[tc[1]][tc[2]][f]}

\* C9: in the report, altered is the number of columns of the before snapshot
\* with a difference in an unexpected field, unaltered the number of the others,
\* and details has an entry for a table and column exactly for the former.
C9_Summary ==
    result.kind = "returned" =>
        LET a == Value(start)
            b == Value(end)
            r == result.report
        IN /\ r.summary.altered = Cardinality(Anomalous(a, b))
           /\ r.summary.unaltered = Cardinality(SnapshotColumns(a) \ Anomalous(a, b))
           /\ r.summary.unaltered + r.summary.altered = Cardinality(SnapshotColumns(a))
           /\ \A t \in DOMAIN r.details : \A c \in DOMAIN r.details[t] :
                 <<t, c>> \in Anomalous(a, b)
           /\ \A tc \in Anomalous(a, b) :
                 /\ tc[1] \in DOMAIN r.details
                 /\ tc[2] \in DOMAIN r.details[tc[1]]

\* A report of one altered and two unaltered columns, one of the unaltered
\* having changed its charset only.
C9_Witness ==
    /\ result.kind = "returned"
    /\ result.report.summary = [unaltered |-> 2, altered |-> 1]
    /\ DOMAIN result.report.details = {"t1"}
    /\ DOMAIN result.report.details.t1 = {"c2"}
    /\ Value(start).t1.c1.CHARACTER_SET_NAME # Value(end).t1.c1.CHARACTER_SET_NAME

\* C10: a call of compare_states made while start or end is None raises
\* MissingStateException and returns no report; made with both set, it returns.
C10_Precondition ==
    [][pc = "compare_states" =>
         IF IsNone(start) \/ IsNone(end)
         THEN result' = [kind |-> "raised", exc |-> "MissingStateException"]
         ELSE result'.kind = "returned"]_vars

\* compare_states has raised with the start state captured and the end state
\* not.
C10_Witness ==
    /\ result.kind = "raised"
    /\ pc = "idle"
    /\ op = "compare_states"
    /\ ~IsNone(start)
    /\ IsNone(end)


\* ------------------------------------------------------- Statistics reporter
\* A defaultdict(int): h[k] += 1
Increment(h, k) ==
    IF k \in DOMAIN h THEN [h EXCEPT ![k] = @ + 1] ELSE (k :> 1) @@ h

\* Reading h[k] from a defaultdict(int): a missing key is stored with 0.
Touched(h, k) == IF k \in DOMAIN h THEN h ELSE (k :> 0) @@ h

RECURSIVE CountColumns(_, _)
\* for column in columns: charset_col[column["charset"]] += 1
CountColumns(cols, charset_col) ==
    IF cols = <<>> THEN charset_col
    ELSE CountColumns(SubSeq(cols, 2, Len(cols)),
                      Increment(charset_col, Head(cols).charset))

RECURSIVE CountTables(_, _)
\* for table in tables: the table's charset and its columns are counted.
CountTables(tbls, acc) ==
    IF tbls = <<>> THEN acc
    ELSE LET table == Head(tbls)
             cols == get_columns_of_table(table)
         IN CountTables(SubSeq(tbls, 2, Len(tbls)),
               [count_col |-> acc.count_col + Len(cols),
                charset_tab |-> Increment(acc.charset_tab,
                                          get_charset_table(table).charset),
                charset_col |-> CountColumns(cols, acc.charset_col)])

\* The missing count taken as the total less the converted.
MissingColumns_Naive(count_col, charset_col) ==
    count_col - charset_col[DEFAULT_CHARSET]

\* count_col - charset_col[DEFAULT_CHARSET] - charset_col[None]
MissingColumns(count_col, charset_col) ==
    count_col - charset_col[DEFAULT_CHARSET] - charset_col[None]

\* update_stats: the data it stores.
update_stats ==
    LET counted == CountTables(get_tables,
                      [count_col |-> 0, charset_tab |-> EmptyDict,
                       charset_col |-> EmptyDict])
        count_tab == Len(get_tables)
        charset_tab == Touched(counted.charset_tab, DEFAULT_CHARSET)
        charset_col == Touched(Touched(counted.charset_col, DEFAULT_CHARSET), None)
    IN [count |-> [tables |-> count_tab, columns |-> counted.count_col],
        charset |-> [tables |-> charset_tab, columns |-> charset_col],
        converted |->
           [tables |-> [converted |-> charset_tab[DEFAULT_CHARSET],
                        missing |-> count_tab - charset_tab[DEFAULT_CHARSET]],
            columns |-> [converted |-> charset_col[DEFAULT_CHARSET],
                         missing |-> MissingColumns(counted.count_col, charset_col)]]]

\* main in statistics mode: stats = Statistics(db)
MainStatistics ==
    /\ pc = "idle"
    /\ result.kind = "none"
    /\ op' = "statistics"
    /\ pc' = "update_stats"
    /\ UNCHANGED <<schema, executed, logger, locals, validator, calls>>

\* Statistics.__init__ calls update_stats, which stores self.data.
UpdateStats ==
    /\ pc = "update_stats"
    /\ result' = [kind |-> "statistics", data |-> update_stats]
    /\ pc' = "idle"
    /\ UNCHANGED <<schema, executed, logger, op, locals, start, end, calls>>

\* Any schema of the universe, read by one run in statistics mode.
InitStatistics ==
    /\ dbInfo \in {[charset |-> CharsetOfCollation(c), collation |-> c] :
                      c \in InitCollations}
    /\ tblColl \in [TableSet -> InitCollations]
    /\ catalog \in [t1 : {<<WithName(k1, "c1"), WithName(k2, "c2")>> :
                             k1 \in ColumnKinds, k2 \in ColumnKinds},
                    t2 : {<<WithName(k, "c1")>> : k \in ColumnKinds}]
    /\ InitProgram

NextStatistics == MainStatistics \/ UpdateStats

SpecStatistics == InitStatistics /\ [][NextStatistics]_vars

RECURSIVE Total(_)
\* The sum of the counts of a histogram.
Total(h) ==
    IF DOMAIN h = {} THEN 0
    ELSE LET k == CHOOSE x \in DOMAIN h : TRUE
         IN h[k] + Total([x \in DOMAIN h \ {k} |-> h[x]])

\* The columns of the catalog, and those whose charset is cs.
CatalogColumns == UNION {{<<t, i>> : i \in 1..Len(catalog[t])} : t \in TableSet}
ColumnsWith(cs) ==
    {tc \in CatalogColumns : catalog[tc[1]][tc[2]].CHARACTER_SET_NAME = cs}

\* C11: the statistics count as converted the tables, and the columns, whose
\* charset is the target charset; as missing the other tables, and the columns
\* whose charset is neither null nor the target; converted, missing and
\* null-charset columns add up to the column count, and both histograms sum to
\* their totals.
C11_Statistics ==
    result.kind = "statistics" =>
        LET d == result.data
            tablesAtTarget ==
                {t \in TableSet : CharsetOfCollation(tblColl[t]) = DEFAULT_CHARSET}
        IN /\ d.count.tables = Cardinality(TableSet)
           /\ d.count.columns = Cardinality(CatalogColumns)
           /\ d.converted.tables.converted = Cardinality(tablesAtTarget)
           /\ d.converted.tables.missing
                 = Cardinality(TableSet) - Cardinality(tablesAtTarget)
           /\ d.converted.columns.converted = Cardinality(ColumnsWith(DEFAULT_CHARSET))
           /\ d.converted.columns.missing
                 = Cardinality(CatalogColumns \ (ColumnsWith(DEFAULT_CHARSET)
                                                   \cup ColumnsWith(None)))
           /\ d.converted.columns.converted + d.converted.columns.missing
                 + Cardinality(ColumnsWith(None)) = d.count.columns
           /\ Total(d.charset.tables) = d.count.tables
           /\ Total(d.charset.columns) = d.count.columns

\* Statistics of a schema with one table at the target and one not, and with
\* one column of null charset, one at the target and one not.
C11_Witness ==
    /\ result.kind = "statistics"
    /\ result.data.converted.tables = [converted |-> 1, missing |-> 1]
    /\ result.data.converted.columns = [converted |-> 1, missing |-> 1]
    /\ Cardinality(ColumnsWith(None)) = 1


\* The charset of unit u in a schema: the database's, the one the table's
\* collation belongs to, or the column's.
UnitCharsetIn(db, tc, cat, u) ==
    IF u[1] = "database" THEN db.charset
    ELSE IF u[1] = "table" THEN CharsetOfCollation(tc[u[2]])
    ELSE cat[u[2]][CHOOSE i \in 1..Len(cat[u[2]]) :
                      cat[u[2]][i].COLUMN_NAME = u[3]].CHARACTER_SET_NAME

\* The units the run in progress has gone through so far.
UnitsSeen ==
    {RunLog(Len(calls))[i].unit : i \in 1..Len(RunLog(Len(calls)))}

\* C12: whatever is logged or executed in one step is one unit going through
\* its states once.  The unit has not been seen in this run and no statement of
\* this run is for it; its start and then its outcome are logged.  A unit that
\* is at the target charset is done with no statement executed and the schema
\* untouched.  Any other unit either is a column the filter passes over, with
\* no statement, or has exactly one statement executed, for it: converted and
\* at the target charset when the statement succeeds, failed with the schema
\* untouched when it does not.  No statement is executed outside such a step.
C12_UnitStateMachine ==
    [][IF logger' = logger
       THEN executed' = executed /\ schema' = schema
       ELSE LET added == SubSeq(logger', Len(logger) + 1, Len(logger'))
                u == added[1].unit
            IN /\ SubSeq(logger', 1, Len(logger)) = logger
               /\ Len(added) = 2
               /\ added[1] = Log("debug", "start", u)
               /\ added[2].unit = u
               /\ u \notin UnitsSeen
               /\ ~Altered_In(ThisRun, u)
               /\ IF UnitCharsetIn(dbInfo, tblColl, catalog, u) = DEFAULT_CHARSET
                  THEN /\ ~IsAlterEvent(added[2])
                       /\ executed' = executed
                       /\ schema' = schema
                  ELSE IF IsAlterEvent(added[2])
                  THEN /\ Len(executed') = Len(executed) + 1
                       /\ SubSeq(executed', 1, Len(executed)) = executed
                       /\ UnitOf(executed'[Len(executed')].query) = u
                       /\ executed'[Len(executed')].ok <=> added[2].event = "converted"
                       /\ IF executed'[Len(executed')].ok
                          THEN UnitCharsetIn(dbInfo', tblColl', catalog', u)
                                  = DEFAULT_CHARSET
                          ELSE schema' = schema
                  ELSE /\ u[1] = "column"
                       /\ added[2].event \in {"no charset", "type"}
                       /\ executed' = executed
                       /\ schema' = schema]_vars

\* A run is over in which the database was converted, the ALTER of table t1
\* failed and was not tried again, and table t2, at the target charset, was
\* passed over.
C12_Witness ==
    /\ Len(calls) = 1
    /\ pc = "idle"
    /\ \E i, j, k \in 1..Len(logger) :
          /\ logger[i] = Log("debug", "converted", <<"database">>)
          /\ logger[j] = Log("error", "failed", <<"table", "t1">>)
          /\ logger[k] = Log("debug", "already", <<"table", "t2">>)
    /\ Cardinality({i \in 1..Len(executed) :
                       UnitOf(executed[i].query) = <<"table", "t1">>}) = 1
    /\ ~Altered_In(executed, <<"table", "t2">>)


\* The schema run k started from and the one it left: database, table
\* collations, catalog.
Before(k) == calls[k].before
After(k) == IF k < Len(calls) THEN calls[k + 1].before ELSE schema

\* After run k the database, every table and every convertible column are at
\* the target charset.
AllAtTarget(k) ==
    /\ After(k)[1].charset = DEFAULT_CHARSET
    /\ \A t \in TableSet :
          /\ CharsetOfCollation(After(k)[2][t]) = DEFAULT_CHARSET
          /\ \A i \in 1..Len(After(k)[3][t]) :
                RowIsConvertible(After(k)[3][t][i])
                   => After(k)[3][t][i].CHARACTER_SET_NAME = DEFAULT_CHARSET

\* The database and the tables that were at the target charset when run k
\* started have the collation they had.
DefaultsKeepCollation(k) ==
    /\ Before(k)[1].charset = DEFAULT_CHARSET => After(k)[1] = Before(k)[1]
    /\ \A t \in TableSet :
          CharsetOfCollation(Before(k)[2][t]) = DEFAULT_CHARSET
             => After(k)[2][t] = Before(k)[2][t]

\* Column i of table t was at the target charset when run k started.
ColumnWasAtTarget(k, t, i) ==
    Before(k)[3][t][i].CHARACTER_SET_NAME = DEFAULT_CHARSET

\* C13, as stated: after a full conversion whose ALTER statements all succeeded
\* the database, every table and every convertible column are at the target
\* charset, and every unit that was at the target charset before the run has
\* the collation it had.
C13_CollationsKept ==
    \A k \in 1..Len(calls) :
        RunOver(k) /\ AllOk(RunStatements(k))
           => /\ AllAtTarget(k)
              /\ DefaultsKeepCollation(k)
              /\ \A t \in TableSet : \A i \in 1..Len(Before(k)[3][t]) :
                    ColumnWasAtTarget(k, t, i)
                       => After(k)[3][t][i].COLLATION_NAME
                             = Before(k)[3][t][i].COLLATION_NAME

\* C13, amended: after a full conversion whose ALTER statements all succeeded
\* the database, every table and every convertible column are at the target
\* charset; the database and the tables that were at the target charset keep
\* their collation; a column that was at the target charset keeps its row as it
\* was when its table was at the target charset too, and has the target
\* collation when its table was converted in the run.
C13_Postcondition ==
    \A k \in 1..Len(calls) :
        RunOver(k) /\ AllOk(RunStatements(k))
           => /\ AllAtTarget(k)
              /\ DefaultsKeepCollation(k)
              /\ \A t \in TableSet : \A i \in 1..Len(Before(k)[3][t]) :
                    ColumnWasAtTarget(k, t, i)
                       => IF Altered_In(RunStatements(k), <<"table", t>>)
                          THEN After(k)[3][t][i].COLLATION_NAME = DEFAULT_COLLATION
                          ELSE After(k)[3][t][i] = Before(k)[3][t][i]

\* A full conversion is over and all its statements succeeded: table t1 was
\* converted and its column c1, at the target charset under another collation,
\* now has the target collation; the database, at the target charset, kept its
\* collation; column c1 of table t2 was converted by a statement of its own.
C13_Witness ==
    /\ Len(calls) = 1
    /\ pc = "idle"
    /\ AllOk(executed)
    /\ Before(1)[1] = [charset |-> DEFAULT_CHARSET, collation |-> "utf8mb4_general_ci"]
    /\ dbInfo = Before(1)[1]
    /\ Altered_In(executed, <<"table", "t1">>)
    /\ Before(1)[3]["t1"][1].COLLATION_NAME = "utf8mb4_general_ci"
    /\ catalog["t1"][1].COLLATION_NAME = DEFAULT_COLLATION
    /\ Altered_In(executed, <<"column", "t2", "c1">>)
    /\ catalog["t2"][1].CHARACTER_SET_NAME = DEFAULT_CHARSET

====
